---- MODULE Spec2Model ----
(***************************************************************************)
(* fusis: the VIP allocator (ipam/ipam.go) and the state store             *)
(* (store/store.go): key-value writes, subscriber registries and the two   *)
(* watch loops that decode change batches and broadcast snapshots.         *)
(***************************************************************************)
EXTENDS Integers, Sequences, FiniteSets, TLC

\* ------------------------------------------------------------------ bounds
\* Largest number of addresses of the configured range (config.Ipam.Ranges[0]).
MaxRange == 3
\* Number of distinct service ids the cluster state may know.
NumServices == 2
\* Batches the two watch loops take in all (both kinds together).
MaxBatches == 2
\* Channels subscribed in all (the three registries together).
MaxSubs == 2

\* ---------------------------------------------------------------- ipam.go
VARIABLES
    rangeCursor,   \* Ipam.rangeCursor: [curr, start, end], addresses as offsets
    services,      \* what state.GetServices() returns: a set of [Id, Host]
    arg,           \* the *types.Service handed to the last AllocateVIP, as passed
    s,             \* the same service when AllocateVIP returned
    err,           \* what the last AllocateVIP returned
    lastOp,        \* the operation that produced this state
    at,            \* the cursor as the last AllocateVIP found it
    prev           \* lastOp, err and s.Host of the state before the last operation

\* --------------------------------------------------------------- store.go
VARIABLES
    backend,       \* the libkv backend New selected from the URL scheme
    kv,            \* FusisStore.kv: the pairs [Key, Value] the store holds
    kvBefore,      \* kv as the last store operation found it
    storeOp        \* the last store operation: [op, svc, dst, err]

VARIABLES
    stream,        \* per kind, the events channel: open, closed or nil
    events,        \* per kind, the batch the kv watch channel offers, if any
    pc,            \* per kind, where the watch loop stands: recv, lock, send
    buf,           \* per kind, the loop's svcs / dsts slice
    idx,           \* per kind, the index of the `range` over the channels
    mutex,         \* FusisStore.Mutex: "" or the kind whose loop holds it
    channels,      \* servicesChannels / destinationChannels / checksChannels
    batches,       \* per kind, the batches the loop has taken, in order
    delivered,     \* per kind and channel, what was sent: [n, snap] in order
    regAt,         \* per kind and channel, the broadcasts begun when it registered
    produced       \* per kind, the batches the kv watch stream has produced

ipamVars == <<rangeCursor, services, arg, s, err, lastOp, at, prev>>
storeVars == <<backend, kv, kvBefore, storeOp>>
watchVars ==
    <<stream, events, pc, buf, idx, mutex, channels, batches, delivered, regAt,
      produced>>
vars == <<ipamVars, storeVars, watchVars>>

Nil == "nil"
ErrNoVipAvailable == "No VIPs available"

\* Service ids (types.Service.GetId()), as sequences of characters.
IdPool == << <<"a">>, <<"a", "b">>, <<"b">>, <<"c">>, <<"b", "c">>, <<"e">> >>
SvcIds == {IdPool[n] : n \in 1..NumServices}

\* net.IP.String() of the address at offset n of the prefix 10.0.0.0.
IPString(n) == "10.0.0." \o ToString(n)

\* Hosts a known service may carry: none yet, or any address the range can hold.
Hosts == {""} \cup {IPString(n) : n \in 0..(MaxRange - 1)}

\* ipaddr.Parse(config.Ipam.Ranges[0]): the cursor stands on the first address.
NewCursor(size) == [curr |-> 0, start |-> 0, end |-> size - 1]

\* Cursor.First(): the start position of the range.
CursorFirst(c) == c.start

\* A Set that does not move the cursor (the reset after a success is lost).
CursorSet_NoReset(c, pos) == c

\* Cursor.Set(pos)
CursorSet(c, pos) == [c EXCEPT !.curr = pos]

\* A Next that returns the position the cursor stands on and then steps.
CursorNext_PostIncrement(c) ==
    IF c.curr > c.end
    THEN [cursor |-> c, pos |-> -1]
    ELSE [cursor |-> [c EXCEPT !.curr = c.curr + 1], pos |-> c.curr]

\* A Next that ends one address late.
CursorNext_PastEnd(c) ==
    IF c.curr = c.end + 1
    THEN [cursor |-> c, pos |-> -1]
    ELSE [cursor |-> [c EXCEPT !.curr = c.curr + 1], pos |-> c.curr + 1]

\* Cursor.Next(): nil at the end of the range, else step and return the new
\* position; the position the cursor stands on is never returned.
CursorNext(c) ==
    IF c.curr = c.end
    THEN [cursor |-> c, pos |-> -1]
    ELSE [cursor |-> [c EXCEPT !.curr = c.curr + 1], pos |-> c.curr + 1]

\* An ipIsAssigned whose loop returns after looking at one service.
ipIsAssigned_FirstOnly(e, svcs) ==
    svcs # {} /\ (CHOOSE a \in svcs : TRUE).Host = e

\* A scan of the services that leaves one of them out (a loop bound off by
\* one).
ipIsAssigned_SkipsOne(e, svcs) ==
    /\ svcs # {}
    /\ \E a \in svcs \ {CHOOSE x \in svcs : TRUE} : a.Host = e

\* ipIsAssigned: some known service has Host e (string equality).
ipIsAssigned(e, svcs) == \E a \in svcs : a.Host = e

\* The loop of AllocateVIP from cursor c: the cursor it leaves, the error it
\* returns and the Host of the service afterwards.
RECURSIVE AllocateScan(_, _, _)
AllocateScan(c, svcs, host) ==
    LET n == CursorNext(c) IN
    IF n.pos = -1
    THEN [cursor |-> n.cursor, err |-> ErrNoVipAvailable, host |-> host]
    ELSE IF ~ipIsAssigned(IPString(n.pos), svcs)
         THEN [cursor |-> CursorSet(n.cursor, CursorFirst(n.cursor)),
               err |-> Nil, host |-> IPString(n.pos)]
         ELSE AllocateScan(n.cursor, svcs, host)

\* AllocateVIP(s): one call, from the cursor the previous calls left.
AllocateVIP(svc) ==
    LET r == AllocateScan(rangeCursor, services, svc.Host) IN
    /\ rangeCursor' = r.cursor
    /\ arg' = svc
    /\ s' = [svc EXCEPT !.Host = r.host]
    /\ err' = r.err
    /\ lastOp' = "AllocateVIP"
    /\ at' = rangeCursor
    /\ prev' = [op |-> lastOp, err |-> err, host |-> s.Host]
    /\ UNCHANGED <<services, storeVars, watchVars>>

\* The cluster state learns a service (its Host already set, or still empty).
StateAddService(svc) ==
    /\ \A a \in services : a.Id # svc.Id
    /\ services' = services \cup {svc}
    /\ lastOp' = "StateAddService"
    /\ prev' = [op |-> lastOp, err |-> err, host |-> s.Host]
    /\ UNCHANGED <<rangeCursor, arg, s, err, at, storeVars, watchVars>>

\* The cluster state forgets a service.
StateDeleteService(svc) ==
    /\ svc \in services
    /\ services' = services \ {svc}
    /\ lastOp' = "StateDeleteService"
    /\ prev' = [op |-> lastOp, err |-> err, host |-> s.Host]
    /\ UNCHANGED <<rangeCursor, arg, s, err, at, storeVars, watchVars>>

NoService == [Id |-> <<>>, Host |-> ""]

Kinds == {"services", "destinations"}

\* servicesChannels, destinationChannels, checksChannels
Registries == Kinds \cup {"checks"}
ChanIds == 1..MaxSubs
NoBatch == [full |-> FALSE, entries |-> <<>>]

\* The state New leaves: empty registries, both loops waiting for a batch.
WatchIdle ==
    /\ stream = [k \in Kinds |-> "open"]
    /\ events = [k \in Kinds |-> NoBatch]
    /\ pc = [k \in Kinds |-> "recv"]
    /\ buf = [k \in Kinds |-> <<>>]
    /\ idx = [k \in Kinds |-> 0]
    /\ mutex = ""
    /\ channels = [k \in Registries |-> <<>>]
    /\ batches = [k \in Kinds |-> <<>>]
    /\ delivered = [k \in Kinds |-> [c \in ChanIds |-> <<>>]]
    /\ regAt = [k \in Kinds |-> [c \in ChanIds |-> 0]]
    /\ produced = [k \in Kinds |-> 0]

StoreIdle ==
    /\ backend = "consul"
    /\ kv = {}
    /\ kvBefore = {}
    /\ storeOp = [op |-> "New", svc |-> <<>>, dst |-> <<>>, err |-> Nil]

IpamInit ==
    /\ StoreIdle
    /\ WatchIdle
    /\ \E size \in 1..MaxRange : rangeCursor = NewCursor(size)
    /\ services = {}
    /\ arg = NoService
    /\ s = NoService
    /\ err = Nil
    /\ lastOp = "New"
    /\ at = rangeCursor
    /\ prev = [op |-> "New", err |-> Nil, host |-> ""]

\* The service passed to AllocateVIP has no Host yet, or one outside the range.
IpamNext ==
    \/ \E id \in SvcIds, h \in {"", IPString(MaxRange)} :
          AllocateVIP([Id |-> id, Host |-> h])
    \/ \E id \in SvcIds, h \in Hosts : StateAddService([Id |-> id, Host |-> h])
    \/ \E svc \in services : StateDeleteService(svc)

SpecIpam == IpamInit /\ [][IpamNext]_vars

\* The caller that allocates sequentially: a service that got its Host from
\* a successful AllocateVIP is added to the known services before anything
\* else happens, and only services not yet known ask for a VIP.
HostPending == lastOp = "AllocateVIP" /\ err = Nil

AllocateForNew(svc) ==
    /\ ~HostPending
    /\ \A a \in services : a.Id # svc.Id
    /\ AllocateVIP(svc)

CommitService ==
    /\ HostPending
    /\ StateAddService(s)

RemoveService(svc) ==
    /\ ~HostPending
    /\ StateDeleteService(svc)

SequentialInit == IpamInit

SequentialNext ==
    \/ \E id \in SvcIds, h \in {"", IPString(MaxRange)} :
          AllocateForNew([Id |-> id, Host |-> h])
    \/ CommitService
    \/ \E svc \in services : RemoveService(svc)

SpecSequential == SequentialInit /\ [][SequentialNext]_vars

\* ------------------------------------------------------ allocator properties
Min(S) == CHOOSE n \in S : \A m \in S : n <= m

\* The addresses of the range of cursor c.
RangeOf(c) == c.start..c.end

\* The addresses of the range no known service has as Host.
Unassigned(c, svcs) ==
    {n \in RangeOf(c) : \A a \in svcs : a.Host # IPString(n)}

\* The same, without the first address of the range.
UnassignedAfterFirst(c, svcs) == Unassigned(c, svcs) \ {c.start}

Allocated == lastOp = "AllocateVIP" /\ err = Nil

\* C2: a successful AllocateVIP never sets s.Host to the Host of a service of
\* the service set it read.
C2_AllocationExclusion ==
    Allocated => \A a \in services : a.Host # s.Host

C2_Witness ==
    /\ Allocated
    /\ \E a \in services : a.Host = IPString(at.start + 1)
    /\ s.Host = IPString(at.start + 2)

\* C3 as stated: from the range start, AllocateVIP returns the lowest address
\* of the whole range, its first address included, that no service has.
C3_FirstFreeOfWholeRange ==
    (lastOp = "AllocateVIP" /\ at.curr = at.start
        /\ Unassigned(at, services) # {})
    => (err = Nil /\ s.Host = IPString(Min(Unassigned(at, services))))

\* C3 amended: from the range start, AllocateVIP returns the lowest address
\* after the first address of the range that no service has, and fails when
\* there is none; the first address of the range is never returned.
C3_FirstFreeAfterRangeStart ==
    (lastOp = "AllocateVIP" /\ at.curr = at.start)
    => IF UnassignedAfterFirst(at, services) # {}
       THEN err = Nil
            /\ s.Host = IPString(Min(UnassignedAfterFirst(at, services)))
       ELSE err = ErrNoVipAvailable /\ s.Host = arg.Host

C3_Witness ==
    /\ Allocated
    /\ at.curr = at.start
    /\ at.start \in Unassigned(at, services)
    /\ at.start + 1 \notin Unassigned(at, services)
    /\ s.Host = IPString(at.start + 2)

\* C4: the outcome of AllocateVIP depends on the known service set alone:
\* whenever an address the scan can return is unassigned, the call succeeds,
\* whatever earlier calls returned.
C4_IndependentOfHistory ==
    (lastOp = "AllocateVIP" /\ UnassignedAfterFirst(at, services) # {})
    => err = Nil

\* C5: with K services whose Hosts are exactly the K addresses of the range,
\* AllocateVIP returns ErrNoVipAvailable and leaves s.Host as it was passed.
C5_Exhaustion ==
    (/\ lastOp = "AllocateVIP"
     /\ Cardinality(services) = Cardinality(RangeOf(at))
     /\ {a.Host : a \in services} = {IPString(n) : n \in RangeOf(at)})
    => (err = ErrNoVipAvailable /\ s.Host = arg.Host)

C5_Witness ==
    /\ lastOp = "AllocateVIP"
    /\ at.curr = at.start
    /\ Cardinality(RangeOf(at)) = 2
    /\ Cardinality(services) = 2
    /\ {a.Host : a \in services} = {IPString(n) : n \in RangeOf(at)}
    /\ arg.Host # ""
    /\ err = ErrNoVipAvailable

\* C6: a successful AllocateVIP leaves the cursor on the first address of
\* the range, and a successful call that directly follows a successful call
\* (no change of the service set in between) assigns the same address.
C6_Determinism ==
    Allocated =>
        /\ rangeCursor.curr = CursorFirst(rangeCursor)
        /\ (prev.op = "AllocateVIP" /\ prev.err = Nil) => s.Host = prev.host

C6_Witness ==
    /\ Allocated
    /\ prev.op = "AllocateVIP" /\ prev.err = Nil
    /\ at.curr = at.start
    /\ s.Host = IPString(at.start + 2)
    /\ prev.host = s.Host

\* C17: when the allocations are sequential and every service that got a
\* Host from a successful AllocateVIP is added to the known services before
\* the next call, no two known services have the same non-empty Host.
C17_NoDuplicateVips ==
    \A a \in services, b \in services :
        (a # b /\ a.Host # "") => a.Host # b.Host

C17_Witness ==
    /\ lastOp = "StateAddService"
    /\ prev.op = "AllocateVIP" /\ prev.err = Nil
    /\ s \in services
    /\ Cardinality(services) = 2
    /\ \A a \in services : a.Host # ""

\* ------------------------------------------------- store.go: keys and values
\* Destination ids (types.Destination.GetId()), as sequences of characters.
DstIds == { <<"d">>, <<"d", "e">> }

\* fmt.Sprintf("fusis/services/%s", svc.GetId())
ServiceDir(id) == <<"fusis", "/", "services", "/">> \o id

\* fmt.Sprintf("fusis/services/%s/config", svc.GetId())
ServiceKey(id) == <<"fusis", "/", "services", "/">> \o id \o <<"/", "config">>

\* fmt.Sprintf("fusis/destinations/%s/%s", svc.GetId(), dst.GetId())
DestinationKey(sid, did) ==
    <<"fusis", "/", "destinations", "/">> \o sid \o <<"/">> \o did

\* json.Marshal of a value with the string fields Id and Host.
Marshal(v) ==
    [syntax |-> TRUE,
     obj |-> [Id |-> [t |-> "string", v |-> v.Id],
              Host |-> [t |-> "string", v |-> v.Host]]]

\* json.Unmarshal(bytes, &zero): a syntax error leaves the target untouched; a
\* field of the wrong JSON type is skipped and reported, the others are set.
Unmarshal(bytes, zero) ==
    IF ~bytes.syntax
    THEN [err |-> "SyntaxError", val |-> zero]
    ELSE LET ok(f) == f \in DOMAIN bytes.obj => bytes.obj[f].t = "string" IN
         [err |-> IF \A f \in DOMAIN zero : ok(f) THEN Nil
                  ELSE "UnmarshalTypeError",
          val |-> [f \in DOMAIN zero |->
                     IF f \in DOMAIN bytes.obj /\ bytes.obj[f].t = "string"
                     THEN bytes.obj[f].v ELSE zero[f]]]

IsPrefix(p, k) == Len(p) <= Len(k) /\ SubSeq(k, 1, Len(p)) = p

\* The keys a subtree delete of dir removes: consul deletes every key with the
\* prefix dir; etcd deletes the node dir and the nodes below it.
InTree(b, dir, key) ==
    IF b = "consul"
    THEN IsPrefix(dir, key)
    ELSE key = dir \/ IsPrefix(dir \o <<"/">>, key)

\* kv.Put(key, value, nil)
Put(store, key, value) ==
    {p \in store : p.Key # key} \cup {[Key |-> key, Value |-> value]}

\* kv.DeleteTree(dir): ErrKeyNotFound when nothing is stored under dir.
DeleteTree(b, store, dir) ==
    IF \E p \in store : InTree(b, dir, p.Key)
    THEN [err |-> Nil, kv |-> {p \in store : ~InTree(b, dir, p.Key)}]
    ELSE [err |-> "Key not found in store", kv |-> store]

\* A store call that fails on its connection changes nothing.
Unreachable == "store unreachable"

\* ------------------------------------------------ store.go: write operations
AddService(svc, reach) ==
    /\ kvBefore' = kv
    /\ IF reach
       THEN /\ kv' = Put(kv, ServiceKey(svc.Id), Marshal(svc))
            /\ storeOp' = [op |-> "AddService", svc |-> svc.Id, dst |-> <<>>,
                           err |-> Nil]
       ELSE /\ kv' = kv
            /\ storeOp' = [op |-> "AddService", svc |-> svc.Id, dst |-> <<>>,
                           err |-> Unreachable]
    /\ UNCHANGED <<backend, ipamVars, watchVars>>

DeleteService(svc, reach) ==
    LET r == IF reach THEN DeleteTree(backend, kv, ServiceDir(svc.Id))
             ELSE [err |-> Unreachable, kv |-> kv] IN
    /\ kvBefore' = kv
    /\ kv' = r.kv
    /\ storeOp' = [op |-> "DeleteService", svc |-> svc.Id, dst |-> <<>>,
                   err |-> r.err]
    /\ UNCHANGED <<backend, ipamVars, watchVars>>

AddDestination(svc, dst, reach) ==
    /\ kvBefore' = kv
    /\ IF reach
       THEN /\ kv' = Put(kv, DestinationKey(svc.Id, dst.Id), Marshal(dst))
            /\ storeOp' = [op |-> "AddDestination", svc |-> svc.Id,
                           dst |-> dst.Id, err |-> Nil]
       ELSE /\ kv' = kv
            /\ storeOp' = [op |-> "AddDestination", svc |-> svc.Id,
                           dst |-> dst.Id, err |-> Unreachable]
    /\ UNCHANGED <<backend, ipamVars, watchVars>>

DeleteDestination(svc, dst, reach) ==
    LET r == IF reach
             THEN DeleteTree(backend, kv, DestinationKey(svc.Id, dst.Id))
             ELSE [err |-> Unreachable, kv |-> kv] IN
    /\ kvBefore' = kv
    /\ kv' = r.kv
    /\ storeOp' = [op |-> "DeleteDestination", svc |-> svc.Id, dst |-> dst.Id,
                   err |-> r.err]
    /\ UNCHANGED <<backend, ipamVars, watchVars>>

\* fmt.Sprintf("fusis/checks/%s/%s", spec.ServiceID, id)
CheckKey(sid, id) == <<"fusis", "/", "checks", "/">> \o sid \o <<"/">> \o id

\* The strings util.RandStr() may return: a random token, drawn anew by every
\* call and independent of the CheckSpec.
RandStr == { <<"x">>, <<"y">> }

\* json.Marshal(spec) of a types.CheckSpec.
MarshalCheck(spec) ==
    [syntax |-> TRUE,
     obj |-> [ServiceID |-> [t |-> "string", v |-> spec.ServiceID],
              Type |-> [t |-> "string", v |-> spec.Type]]]

\* AddCheck(spec): id is the value util.RandStr() returned to this call.
AddCheck(spec, id, reach) ==
    /\ kvBefore' = kv
    /\ IF reach
       THEN /\ kv' = Put(kv, CheckKey(spec.ServiceID, id), MarshalCheck(spec))
            /\ storeOp' = [op |-> "AddCheck", svc |-> spec.ServiceID,
                           dst |-> id, err |-> Nil]
       ELSE /\ kv' = kv
            /\ storeOp' = [op |-> "AddCheck", svc |-> spec.ServiceID,
                           dst |-> id, err |-> Unreachable]
    /\ UNCHANGED <<backend, ipamVars, watchVars>>

\* Services, destinations and check specs the callers pass.
CheckSpecs == {[ServiceID |-> IdPool[1], Type |-> "tcp"]}
ServiceArgs == {[Id |-> id, Host |-> h] : id \in SvcIds, h \in {"", IPString(1)}}
DestinationArgs == {[Id |-> id, Host |-> "192.168.1.1"] : id \in DstIds}

\* The allocator before any call, on a range of one address.
IpamIdle ==
    /\ rangeCursor = NewCursor(1)
    /\ services = {}
    /\ arg = NoService
    /\ s = NoService
    /\ err = Nil
    /\ lastOp = "New"
    /\ at = rangeCursor
    /\ prev = [op |-> "New", err |-> Nil, host |-> ""]

\* New: the URL scheme selects the backend; any other scheme is refused.
StoreInit ==
    /\ backend \in {"consul", "etcd"}
    /\ kv = {}
    /\ kvBefore = {}
    /\ storeOp = [op |-> "New", svc |-> <<>>, dst |-> <<>>, err |-> Nil]
    /\ IpamIdle
    /\ WatchIdle

StoreNext ==
    \/ \E svc \in ServiceArgs, reach \in BOOLEAN : AddService(svc, reach)
    \/ \E svc \in ServiceArgs, reach \in BOOLEAN : DeleteService(svc, reach)
    \/ \E svc \in ServiceArgs, dst \in DestinationArgs, reach \in BOOLEAN :
          AddDestination(svc, dst, reach)
    \/ \E svc \in ServiceArgs, dst \in DestinationArgs, reach \in BOOLEAN :
          DeleteDestination(svc, dst, reach)
    \/ \E spec \in CheckSpecs, id \in RandStr, reach \in BOOLEAN :
          AddCheck(spec, id, reach)

SpecStore == StoreInit /\ [][StoreNext]_vars

\* ---------------------------------------------------------- store properties
Keys(store) == {p.Key : p \in store}

\* The pairs of a store whose key is a destination key of a service other
\* than id.
OtherDestinations(store, id) ==
    {p \in store : \E sid \in SvcIds \ {id}, did \in DstIds :
                      p.Key = DestinationKey(sid, did)}

\* C7: after a successful DeleteService(svc) the store holds neither the
\* config entry of svc nor a destination entry under svc's id, and the
\* destination entries of the other services are as they were.
C7_DeletionScope ==
    (storeOp.op = "DeleteService" /\ storeOp.err = Nil)
    => /\ ServiceKey(storeOp.svc) \notin Keys(kv)
       /\ \A did \in DstIds : DestinationKey(storeOp.svc, did) \notin Keys(kv)
       /\ OtherDestinations(kv, storeOp.svc)
            = OtherDestinations(kvBefore, storeOp.svc)

\* The check entries stored under fusis/checks/<sid>/.
ChecksOf(store, sid) ==
    {p \in store : \E id \in RandStr : p.Key = CheckKey(sid, id)}

\* C11: a successful AddCheck adds one entry under checks/<ServiceID>/ and
\* overwrites none: the key it writes was not in the store before the call, so
\* two successful calls with the same CheckSpec leave two distinct entries.
C11_CheckMultiplicity ==
    (storeOp.op = "AddCheck" /\ storeOp.err = Nil)
    => /\ CheckKey(storeOp.svc, storeOp.dst) \notin Keys(kvBefore)
       /\ Cardinality(ChecksOf(kv, storeOp.svc))
            = Cardinality(ChecksOf(kvBefore, storeOp.svc)) + 1

\* The config entries of the services other than id, and the destination
\* entries other than (sid, did).
OtherConfigs(store, id) ==
    {p \in store : \E o \in SvcIds \ {id} : p.Key = ServiceKey(o)}
OtherDestinationEntries(store, sid, did) ==
    {p \in store : \E o \in SvcIds, d \in DstIds :
                      /\ <<o, d>> # <<sid, did>>
                      /\ p.Key = DestinationKey(o, d)}

\* C18: DeleteService(svc) leaves the config entry of every other service as
\* it was, and DeleteDestination(svc, dst) leaves every other destination
\* entry as it was, also when the deleted id is a prefix of another id.
C18_DeleteLeavesOthersAlone ==
    /\ storeOp.op = "DeleteService"
        => OtherConfigs(kv, storeOp.svc) = OtherConfigs(kvBefore, storeOp.svc)
    /\ storeOp.op = "DeleteDestination"
        => OtherDestinationEntries(kv, storeOp.svc, storeOp.dst)
             = OtherDestinationEntries(kvBefore, storeOp.svc, storeOp.dst)

\* --------------------------------------------------- store.go: watch loops
\* types.Service{} / types.Destination{}: the value json.Unmarshal fills.
Zero == [Id |-> <<>>, Host |-> ""]

\* The key of an entry of the watched tree of kind k.
EntryKey(k, id) ==
    IF k = "services" THEN ServiceKey(id) ELSE DestinationKey(<<"a">>, id)

\* Values found in the store: two well-formed ones, one that is no JSON, one
\* whose Host is a JSON number.
Good1 == Marshal([Id |-> <<"a">>, Host |-> IPString(1)])
Good2 == Marshal([Id |-> <<"a", "b">>, Host |-> ""])
NotJson == [syntax |-> FALSE, obj |-> [Id |-> [t |-> "string", v |-> <<>>]]]
HostIsNumber ==
    [syntax |-> TRUE,
     obj |-> [Id |-> [t |-> "string", v |-> <<"b">>],
              Host |-> [t |-> "number", v |-> "7"]]]

Entry(k, id, value) == [Key |-> EntryKey(k, id), Value |-> value]

\* The batches a watch stream of kind k may deliver.
BatchPool(k) ==
    { <<Entry(k, <<"a">>, Good1)>>,
      <<Entry(k, <<"b">>, NotJson), Entry(k, <<"a", "b">>, Good2)>>,
      <<Entry(k, <<"a", "b">>, Good2), Entry(k, <<"a">>, Good1),
        Entry(k, <<"b">>, HostIsNumber)>> }

\* A decoder that leaves the batch at the first entry that fails to decode.
RECURSIVE DecodeEntries_BreakOnError(_)
DecodeEntries_BreakOnError(entries) ==
    IF entries = <<>> \/ Unmarshal(Head(entries).Value, Zero).err # Nil
    THEN <<>>
    ELSE <<Unmarshal(Head(entries).Value, Zero).val>>
            \o DecodeEntries_BreakOnError(Tail(entries))

\* The `for _, pair := range entries` loop: every entry is unmarshalled into a
\* fresh zero value and that value is appended, whether or not Unmarshal
\* returned an error (the error is only logged).
DecodeEntries(entries) ==
    [i \in 1..Len(entries) |-> Unmarshal(entries[i].Value, Zero).val]

Emitted == LET n(k) == Len(batches[k]) + (IF events[k].full THEN 1 ELSE 0)
           IN n("services") + n("destinations")

Subscribed ==
    Len(channels["services"]) + Len(channels["destinations"])
        + Len(channels["checks"])

\* kv.WatchTree's goroutine offers the next batch on the events channel.
StoreEmit(k, b) ==
    /\ stream[k] = "open"
    /\ ~events[k].full
    /\ Emitted < MaxBatches
    /\ events' = [events EXCEPT ![k] = [full |-> TRUE, entries |-> b]]
    /\ produced' = [produced EXCEPT ![k] = @ + 1]
    /\ UNCHANGED <<stream, pc, buf, idx, mutex, channels, batches, delivered,
                   regAt, ipamVars, storeVars>>

\* kv.WatchTree's goroutine ends (a failed read of the tree) and closes the
\* events channel.
StoreClose(k) ==
    /\ stream[k] = "open"
    /\ ~events[k].full
    /\ stream' = [stream EXCEPT ![k] = "closed"]
    /\ UNCHANGED <<events, pc, buf, idx, mutex, channels, batches, delivered,
                   regAt, produced, ipamVars, storeVars>>

\* A Subscribe that appends without taking the mutex.
Subscribe_NoLock(k) ==
    LET c == Len(channels[k]) + 1 IN
    /\ Subscribed < MaxSubs
    /\ channels' = [channels EXCEPT ![k] = Append(@, c)]
    /\ regAt' = [regAt EXCEPT ![k][c] =
                    IF pc[k] = "lock" THEN Len(batches[k]) - 1
                    ELSE Len(batches[k])]
    /\ UNCHANGED <<stream, events, pc, buf, idx, mutex, batches, delivered,
                   produced, ipamVars, storeVars>>

\* Subscribe<Kind>(ch): Lock, append, Unlock. ch is a channel not registered
\* before.
Subscribe(k) ==
    LET c == Len(channels[k]) + 1 IN
    /\ mutex = ""
    /\ Subscribed < MaxSubs
    /\ channels' = [channels EXCEPT ![k] = Append(@, c)]
    /\ regAt' = [regAt EXCEPT ![k][c] =
                    IF pc[k] = "lock" THEN Len(batches[k]) - 1
                    ELSE Len(batches[k])]
    /\ UNCHANGED <<stream, events, pc, buf, idx, mutex, batches, delivered,
                   produced, ipamVars, storeVars>>

\* A receive that treats a nil events channel like a closed one.
WatchRecv_NilAsClosed(k) ==
    /\ pc[k] = "recv"
    /\ \/ events[k].full
       \/ stream[k] \in {"closed", "nil"} /\ Emitted < MaxBatches
    /\ events' = [events EXCEPT ![k] = NoBatch]
    /\ batches' = [batches EXCEPT ![k] = Append(@, events[k].entries)]
    /\ buf' = [buf EXCEPT ![k] = @ \o DecodeEntries(events[k].entries)]
    /\ pc' = [pc EXCEPT ![k] = "lock"]
    /\ UNCHANGED <<stream, idx, mutex, channels, delivered,
                   regAt, produced, ipamVars, storeVars>>

\* case entries := <-events, and the decoding of the batch into the slice. A
\* nil channel never delivers; a closed one delivers nil entries at once.
WatchRecv(k) ==
    /\ pc[k] = "recv"
    /\ \/ events[k].full
       \/ stream[k] = "closed" /\ Emitted < MaxBatches
    /\ events' = [events EXCEPT ![k] = NoBatch]
    /\ batches' = [batches EXCEPT ![k] = Append(@, events[k].entries)]
    /\ buf' = [buf EXCEPT ![k] = @ \o DecodeEntries(events[k].entries)]
    /\ pc' = [pc EXCEPT ![k] = "lock"]
    /\ UNCHANGED <<stream, idx, mutex, channels, delivered,
                   regAt, produced, ipamVars, storeVars>>

\* A Lock on a mutex of the loop's own kind: the other kind's holder is not
\* waited for.
WatchLock_PerKind(k) ==
    /\ pc[k] = "lock"
    /\ mutex # k
    /\ mutex' = k
    /\ idx' = [idx EXCEPT ![k] = 1]
    /\ pc' = [pc EXCEPT ![k] = "send"]
    /\ UNCHANGED <<stream, events, buf, channels, batches, delivered,
                   regAt, produced, ipamVars, storeVars>>

\* s.Lock()
WatchLock(k) ==
    /\ pc[k] = "lock"
    /\ mutex = ""
    /\ mutex' = k
    /\ idx' = [idx EXCEPT ![k] = 1]
    /\ pc' = [pc EXCEPT ![k] = "send"]
    /\ UNCHANGED <<stream, events, buf, channels, batches, delivered,
                   regAt, produced, ipamVars, storeVars>>

\* A send that also clears the slice (the clean-up moved into the loop).
WatchSend_ResetInLoop(k) ==
    /\ pc[k] = "send"
    /\ idx[k] <= Len(channels[k])
    /\ delivered' = [delivered EXCEPT ![k][channels[k][idx[k]]] =
                        Append(@, [n |-> Len(batches[k]), snap |-> buf[k]])]
    /\ buf' = [buf EXCEPT ![k] = <<>>]
    /\ idx' = [idx EXCEPT ![k] = @ + 1]
    /\ UNCHANGED <<stream, events, pc, mutex, channels, batches,
                   regAt, produced, ipamVars, storeVars>>

\* A send that may give up on a channel (select with a default case).
WatchSend_DropIfBusy(k) ==
    /\ pc[k] = "send"
    /\ idx[k] <= Len(channels[k])
    /\ \/ delivered' = [delivered EXCEPT ![k][channels[k][idx[k]]] =
                          Append(@, [n |-> Len(batches[k]), snap |-> buf[k]])]
       \/ delivered' = delivered
    /\ idx' = [idx EXCEPT ![k] = @ + 1]
    /\ UNCHANGED <<stream, events, pc, buf, mutex, channels, batches,
                   regAt, produced, ipamVars, storeVars>>

\* ch <- svcs: the send to the next registered channel completes when its
\* receiver takes the value.
WatchSend(k) ==
    /\ pc[k] = "send"
    /\ idx[k] <= Len(channels[k])
    /\ delivered' = [delivered EXCEPT ![k][channels[k][idx[k]]] =
                        Append(@, [n |-> Len(batches[k]), snap |-> buf[k]])]
    /\ idx' = [idx EXCEPT ![k] = @ + 1]
    /\ UNCHANGED <<stream, events, pc, buf, mutex, channels, batches,
                   regAt, produced, ipamVars, storeVars>>

\* A broadcast that gives up when a receiver does not take the snapshot (a
\* send with a timeout): the loop unlocks and goes on to the next batch.
WatchUnlock_OnTimeout(k) ==
    /\ pc[k] = "send"
    /\ mutex' = ""
    /\ buf' = [buf EXCEPT ![k] = <<>>]
    /\ idx' = [idx EXCEPT ![k] = 0]
    /\ pc' = [pc EXCEPT ![k] = "recv"]
    /\ UNCHANGED <<stream, events, channels, batches, delivered,
                   regAt, produced, ipamVars, storeVars>>

\* An Unlock whose clean-up of the slice happens only when the broadcast had
\* a channel to send to.
WatchUnlock_ResetIfSent(k) ==
    /\ pc[k] = "send"
    /\ idx[k] > Len(channels[k])
    /\ mutex' = ""
    /\ buf' = [buf EXCEPT ![k] = IF channels[k] = <<>> THEN @ ELSE <<>>]
    /\ idx' = [idx EXCEPT ![k] = 0]
    /\ pc' = [pc EXCEPT ![k] = "recv"]
    /\ UNCHANGED <<stream, events, channels, batches, delivered,
                   regAt, produced, ipamVars, storeVars>>

\* The end of a broadcast with the Unlock left out.
WatchUnlock_Forgotten(k) ==
    /\ pc[k] = "send"
    /\ idx[k] > Len(channels[k])
    /\ buf' = [buf EXCEPT ![k] = <<>>]
    /\ idx' = [idx EXCEPT ![k] = 0]
    /\ pc' = [pc EXCEPT ![k] = "recv"]
    /\ UNCHANGED <<stream, events, mutex, channels, batches, delivered,
                   regAt, produced, ipamVars, storeVars>>

\* s.Unlock() after the last channel, and the slice is replaced by an empty one.
WatchUnlock(k) ==
    /\ pc[k] = "send"
    /\ idx[k] > Len(channels[k])
    /\ mutex' = ""
    /\ buf' = [buf EXCEPT ![k] = <<>>]
    /\ idx' = [idx EXCEPT ![k] = 0]
    /\ pc' = [pc EXCEPT ![k] = "recv"]
    /\ UNCHANGED <<stream, events, channels, batches, delivered,
                   regAt, produced, ipamVars, storeVars>>

SubscribeServices == Subscribe("services")
SubscribeDestinations == Subscribe("destinations")

\* SubscribeChecks(ch): Lock, append, Unlock, on the same mutex.
SubscribeChecks ==
    /\ mutex = ""
    /\ Subscribed < MaxSubs
    /\ channels' = [channels EXCEPT !["checks"] = Append(@, Len(@) + 1)]
    /\ UNCHANGED <<stream, events, pc, buf, idx, mutex, batches, delivered,
                   regAt, produced, ipamVars, storeVars>>

WatchServices ==
    \/ WatchRecv("services")
    \/ WatchLock("services")
    \/ WatchSend("services")
    \/ WatchUnlock("services")

WatchDestinations ==
    \/ WatchRecv("destinations")
    \/ WatchLock("destinations")
    \/ WatchSend("destinations")
    \/ WatchUnlock("destinations")

\* New starts both loops; a WatchTree that returns an error leaves the loop
\* with a nil events channel.
WatchInit ==
    /\ stream \in [Kinds -> {"open", "nil"}]
    /\ events = [k \in Kinds |-> NoBatch]
    /\ pc = [k \in Kinds |-> "recv"]
    /\ buf = [k \in Kinds |-> <<>>]
    /\ idx = [k \in Kinds |-> 0]
    /\ mutex = ""
    /\ channels = [k \in Registries |-> <<>>]
    /\ batches = [k \in Kinds |-> <<>>]
    /\ delivered = [k \in Kinds |-> [c \in ChanIds |-> <<>>]]
    /\ regAt = [k \in Kinds |-> [c \in ChanIds |-> 0]]
    /\ produced = [k \in Kinds |-> 0]
    /\ StoreIdle
    /\ IpamIdle

WatchNext ==
    \/ \E k \in Kinds : \E b \in BatchPool(k) : StoreEmit(k, b)
    \/ \E k \in Kinds : StoreClose(k)
    \/ SubscribeServices
    \/ SubscribeDestinations
    \/ SubscribeChecks
    \/ WatchServices
    \/ WatchDestinations

SpecWatch == WatchInit /\ [][WatchNext]_vars

\* A fair scheduler runs each loop goroutine when it can take a step, every
\* subscriber channel has a receiver that takes what is sent to it, and a
\* goroutine waiting in Lock gets the mutex when it is free again and again
\* (sync.Mutex hands the lock to a starving waiter).
WatchFairness ==
    \A k \in Kinds :
        /\ WF_vars(WatchRecv(k))
        /\ SF_vars(WatchLock(k))
        /\ WF_vars(WatchSend(k))
        /\ WF_vars(WatchUnlock(k))

\* The fair runs: both WatchTree calls succeeded and the streams stay open;
\* the content of a batch plays no part in the progress of the loops, so
\* every batch is the same one.
FairBatch(k) == <<Entry(k, <<"a">>, Good1)>>

WatchFairInit == WatchIdle /\ StoreIdle /\ IpamIdle

WatchFairNext ==
    \/ \E k \in Kinds : StoreEmit(k, FairBatch(k))
    \/ SubscribeServices
    \/ SubscribeDestinations
    \/ SubscribeChecks
    \/ WatchServices
    \/ WatchDestinations

SpecWatchFair == WatchFairInit /\ [][WatchFairNext]_vars /\ WatchFairness

\* ---------------------------------------------------------- watch properties
\* The entries of a batch that decode without error, and their values.
Decodes(e) == Unmarshal(e.Value, Zero).err = Nil
WellFormed(entries) == SelectSeq(entries, Decodes)
ValuesOf(entries) ==
    [i \in 1..Len(entries) |-> Unmarshal(entries[i].Value, Zero).val]

\* a can be obtained from b by leaving elements out.
RECURSIVE IsSubseq(_, _)
IsSubseq(a, b) ==
    IF a = <<>> THEN TRUE
    ELSE IF b = <<>> THEN FALSE
    ELSE IF Head(a) = Head(b) THEN IsSubseq(Tail(a), Tail(b))
    ELSE IsSubseq(a, Tail(b))

\* The i-th send to channel c of kind k, and the batch it was made for.
Sent(k, c, i) == delivered[k][c][i]
BatchOf(k, c, i) == batches[k][delivered[k][c][i].n]
SendsTo(k, c) == DOMAIN delivered[k][c]

\* C1: the snapshots sent for one batch are equal on every channel that got
\* one.
C1_FanOutConsistency ==
    \A k \in Kinds : \A c \in ChanIds, d \in ChanIds :
        \A i \in SendsTo(k, c), j \in SendsTo(k, d) :
            Sent(k, c, i).n = Sent(k, d, j).n
                => Sent(k, c, i).snap = Sent(k, d, j).snap

C1_Witness ==
    \E k \in Kinds : \E c \in ChanIds, d \in ChanIds :
        \E i \in SendsTo(k, c), j \in SendsTo(k, d) :
            /\ c # d
            /\ Sent(k, c, i).n = Sent(k, d, j).n
            /\ Len(Sent(k, c, i).snap) >= 2

\* C8: the snapshot sent for a batch has exactly one element per entry of the
\* batch that decoded without error.
C8_DecodeFailuresSkipped ==
    \A k \in Kinds : \A c \in ChanIds : \A i \in SendsTo(k, c) :
        Len(Sent(k, c, i).snap) = Len(WellFormed(BatchOf(k, c, i)))

\* C9: every entry of a batch that decodes without error is in the snapshot
\* sent for that batch, in batch order, wherever the malformed entries of the
\* batch stand, and this holds of every later batch too.
C9_DecodeFailureIsolation ==
    \A k \in Kinds : \A c \in ChanIds : \A i \in SendsTo(k, c) :
        IsSubseq(ValuesOf(WellFormed(BatchOf(k, c, i))), Sent(k, c, i).snap)

\* A channel got the snapshot of a first batch whose malformed entry stands
\* before a well-formed one, and then the snapshot of a second batch whose
\* malformed entry stands last, after the well-formed ones.
C9_Witness ==
    \E k \in Kinds : \E c \in ChanIds :
        /\ Len(delivered[k][c]) >= 2
        /\ Sent(k, c, 1).n = 1 /\ Sent(k, c, 2).n = 2
        /\ Len(batches[k][1]) >= 2 /\ Len(batches[k][2]) >= 2
        /\ ~Decodes(batches[k][1][1]) /\ Decodes(batches[k][1][2])
        /\ Decodes(batches[k][2][1])
        /\ ~Decodes(batches[k][2][Len(batches[k][2])])
        /\ \E p \in DOMAIN Sent(k, c, 1).snap :
              Sent(k, c, 1).snap[p] = ValuesOf(batches[k][1])[2]
        /\ \E p \in DOMAIN Sent(k, c, 2).snap :
              Sent(k, c, 2).snap[p] = ValuesOf(batches[k][2])[1]

\* C10: the i-th send to a channel carries the snapshot of the i-th batch the
\* loop took after the channel registered (for a channel registered from the
\* start, of the i-th batch), and every batch is sent exactly once to every
\* registered channel: no reordering, no coalescing, no repetition.
C10_OrderedNoCoalescing ==
    \A k \in Kinds : \A c \in ChanIds :
        /\ \A i \in SendsTo(k, c) :
              /\ Sent(k, c, i).n = regAt[k][c] + i
              /\ Sent(k, c, i).snap = DecodeEntries(BatchOf(k, c, i))
        /\ Len(delivered[k][c]) + regAt[k][c] <= Len(batches[k])
        /\ (pc[k] = "recv" /\ \E p \in DOMAIN channels[k] : channels[k][p] = c)
              => Len(delivered[k][c]) + regAt[k][c] = Len(batches[k])

C10_Witness ==
    \E k \in Kinds, c \in ChanIds :
        /\ regAt[k][c] = 0
        /\ Len(delivered[k][c]) = 2
        /\ batches[k][1] # batches[k][2]
        /\ delivered[k][c][1].snap = DecodeEntries(batches[k][1])
        /\ delivered[k][c][2].snap = DecodeEntries(batches[k][2])
        /\ pc[k] = "recv"

\* The loop of kind k is inside its broadcast, blocked on a channel whose
\* receiver has not taken the snapshot.
Blocked(k) == pc[k] = "send" /\ idx[k] <= Len(channels[k])

OtherKind(k) == IF k = "services" THEN "destinations" ELSE "services"

\* C12 as stated: while a services broadcast is blocked on a channel, a
\* destinations loop that has taken a batch can start its broadcast, and
\* SubscribeDestinations and SubscribeChecks can return.
C12_OneLockPerKind ==
    Blocked("services")
    => /\ pc["destinations"] = "lock" => ENABLED WatchLock("destinations")
       /\ Subscribed < MaxSubs
            => ENABLED SubscribeDestinations /\ ENABLED SubscribeChecks

\* C12, amended: one mutex guards the three registries and both broadcasts.
\* It is held exactly while a loop is in its broadcast, by at most one loop;
\* while it is held the other loop cannot start a broadcast and no
\* Subscribe call returns.
C12_OneSharedLock ==
    \A k \in Kinds :
        /\ mutex = k <=> pc[k] = "send"
        /\ pc[k] = "send"
            => /\ pc[OtherKind(k)] # "send"
               /\ ~ENABLED WatchLock(OtherKind(k))
               /\ ~ENABLED SubscribeServices
               /\ ~ENABLED SubscribeDestinations
               /\ ~ENABLED SubscribeChecks

C12_Witness ==
    /\ Blocked("services")
    /\ pc["destinations"] = "lock"
    /\ Subscribed < MaxSubs
    /\ mutex = "services"

\* Channel c has been sent the snapshot of the n-th batch of kind k.
Got(k, c, n) == \E i \in SendsTo(k, c) : Sent(k, c, i).n = n

Registered(k) == {channels[k][p] : p \in DOMAIN channels[k]}

\* While a broadcast is under way every registered channel was registered
\* before the broadcast took the lock, and the channels that have been sent
\* its snapshot are those before the loop index, in registration order; no
\* channel is sent the snapshot of one batch twice, and a channel that is
\* not registered is sent nothing.
BroadcastToRegistry ==
    \A k \in Kinds :
        /\ pc[k] = "send"
            => \A p \in DOMAIN channels[k] :
                  /\ regAt[k][channels[k][p]] < Len(batches[k])
                  /\ Got(k, channels[k][p], Len(batches[k])) <=> p < idx[k]
        /\ \A c \in ChanIds :
              /\ \A i \in SendsTo(k, c), j \in SendsTo(k, c) :
                    Sent(k, c, i).n = Sent(k, c, j).n => i = j
              /\ \A i \in SendsTo(k, c) : Sent(k, c, i).n > regAt[k][c]
              /\ c \notin Registered(k) => delivered[k][c] = <<>>

\* A step leaves a registry as it was or appends to it, and leaves it as it
\* was while the broadcast of its kind is under way.
RegistryGrows ==
    /\ \A k \in Registries : IsPrefix(channels[k], channels'[k])
    /\ \A k \in Kinds : pc[k] = "send" => channels'[k] = channels[k]

\* C13: registration is atomic with respect to broadcast: a broadcast sends
\* to exactly the channels registered when it took the lock, once each and in
\* registration order; a channel registered later is sent nothing of it and
\* is sent every later one; the registry only grows.
C13_RegistrationAtomic == []BroadcastToRegistry /\ [][RegistryGrows]_vars

C13_Witness ==
    \E k \in Kinds : \E c \in ChanIds, d \in ChanIds :
        /\ regAt[k][c] = 0 /\ Got(k, c, 1) /\ Got(k, c, 2)
        /\ d \in Registered(k) /\ regAt[k][d] = 1
        /\ ~Got(k, d, 1) /\ Got(k, d, 2)

\* The channel the blocked loop of kind k is sending to.
Current(k) == channels[k][idx[k]]

\* While the loop is blocked on a channel, the channels registered after it
\* have not been sent the current snapshot, and the loop can neither take
\* the next batch nor leave the broadcast.
HeldBack ==
    \A k \in Kinds :
        Blocked(k)
        => /\ \A p \in DOMAIN channels[k] :
                 p >= idx[k] => ~Got(k, channels[k][p], Len(batches[k]))
           /\ ~ENABLED WatchRecv(k)
           /\ ~ENABLED WatchUnlock(k)

\* A step in which the receiver of the current channel takes nothing leaves
\* the loop where it is; a step that ends a broadcast finds that every
\* registered channel has been sent its snapshot.
WaitsForReceiver ==
    \A k \in Kinds :
        /\ (Blocked(k) /\ delivered'[k][Current(k)] = delivered[k][Current(k)])
            => /\ pc'[k] = pc[k] /\ idx'[k] = idx[k]
               /\ batches'[k] = batches[k] /\ buf'[k] = buf[k]
               /\ delivered'[k] = delivered[k]
        /\ (pc[k] = "send" /\ pc'[k] = "recv")
            => \A c \in Registered(k) : Got(k, c, Len(batches[k]))

\* C14: delivery is a blocking send per channel, with no timeout and no
\* drop: while the receiver of the channel the loop is sending to does not
\* receive, no later channel gets the snapshot and the loop takes no further
\* batch; a broadcast ends only when every registered channel has been sent
\* the snapshot.
C14_BlockingBackpressure == []HeldBack /\ [][WaitsForReceiver]_vars

C14_Witness ==
    \E k \in Kinds :
        /\ Blocked(k) /\ idx[k] = 1 /\ Len(channels[k]) = 2
        /\ events[k].full
        /\ Len(batches[k]) = 1
        /\ ~Got(k, channels[k][2], 1)

\* A loop whose WatchTree failed stands in its receive on the nil channel:
\* it has taken no batch and sent nothing, and it cannot take one; the store
\* operations are not held up by it.
Stalled ==
    \A k \in Kinds :
        stream[k] = "nil"
        => /\ pc[k] = "recv" /\ batches[k] = <<>> /\ produced[k] = 0
           /\ \A c \in ChanIds : delivered[k][c] = <<>>
           /\ ~ENABLED WatchRecv(k)
           /\ \A svc \in ServiceArgs :
                 ENABLED AddService(svc, TRUE) /\ ENABLED DeleteService(svc, TRUE)

\* The loop does not call WatchTree again: a nil events channel stays nil.
NoRetry == \A k \in Kinds : stream[k] = "nil" => stream'[k] = "nil"

\* C15: when WatchTree returns an error and no events channel, the loop
\* blocks in its receive for good: it neither retries nor sends a snapshot to
\* any subscriber of its kind, while the store operations and the loop of
\* the other kind go on.
C15_SilentStall == []Stalled /\ [][NoRetry]_vars

C15_Witness ==
    \E k \in Kinds :
        /\ stream[k] = "nil" /\ stream[OtherKind(k)] = "open"
        /\ Len(channels[k]) >= 1
        /\ \E c \in Registered(OtherKind(k)) : Got(OtherKind(k), c, 1)
        /\ pc[OtherKind(k)] = "recv"

\* The last batch the loop of kind k has taken.
LastBatch(k) == batches[k][Len(batches[k])]

\* C16: the slice is empty whenever the loop waits for a batch and holds the
\* values of the batch just taken, and of no other, until the broadcast is
\* over; so a snapshot has one value per entry of its batch, in the order of
\* the batch, and carries nothing of an earlier batch, whether or not the
\* earlier broadcast had a channel to send to.
C16_BufferReset ==
    \A k \in Kinds :
        /\ pc[k] = "recv" => buf[k] = <<>>
        /\ pc[k] # "recv" => buf[k] = ValuesOf(LastBatch(k))
        /\ \A c \in ChanIds : \A i \in SendsTo(k, c) :
              /\ Len(Sent(k, c, i).snap) = Len(BatchOf(k, c, i))
              /\ \A p \in DOMAIN BatchOf(k, c, i) :
                    Sent(k, c, i).snap[p]
                        = Unmarshal(BatchOf(k, c, i)[p].Value, Zero).val

C16_Witness ==
    \E k \in Kinds :
        /\ Len(channels[k]) = 1
        /\ regAt[k][channels[k][1]] = 1
        /\ Len(batches[k]) = 2
        /\ batches[k][1] # <<>> /\ batches[k][2] # <<>>
        /\ batches[k][1] # batches[k][2]
        /\ Got(k, channels[k][1], 2)
        /\ Sent(k, channels[k][1], 1).snap = ValuesOf(batches[k][2])

\* The broadcasts the loop of kind k has begun.
Broadcasts(k) ==
    IF pc[k] = "lock" THEN Len(batches[k]) - 1 ELSE Len(batches[k])

\* C19: a loop broadcasts only in response to a batch of the watch stream: a
\* loop has not begun more broadcasts, and no channel has been sent more
\* snapshots, than the stream of its kind has produced batches, also once
\* the stream has closed the events channel.
C19_NoSpontaneousBroadcast ==
    \A k \in Kinds :
        /\ Broadcasts(k) <= produced[k]
        /\ \A c \in ChanIds : Len(delivered[k][c]) <= produced[k]

\* The n-th batch of kind k has been broadcast: the loop is past it and every
\* channel registered before that broadcast began has been sent its snapshot.
Delivered(k, n) ==
    /\ Len(batches[k]) > n \/ (Len(batches[k]) = n /\ pc[k] = "recv")
    /\ \A c \in Registered(k) : regAt[k][c] < n => Got(k, c, n)

\* C20: with fair receivers and a fair scheduler every batch the store
\* produces is in the end delivered to every channel registered at the time
\* of its broadcast, and the mutex is free again after every broadcast, so
\* every Subscribe call waiting for it returns.
C20_Progress ==
    \A k \in Kinds :
        /\ \A n \in 1..MaxBatches : (produced[k] >= n) ~> Delivered(k, n)
        /\ (mutex = k) ~> (mutex = "")

C20_Witness ==
    \E k \in Kinds :
        /\ produced[k] = 2 /\ Delivered(k, 2)
        /\ Len(channels[k]) = 2
        /\ \A c \in Registered(k) : regAt[k][c] = 0 /\ Got(k, c, 1) /\ Got(k, c, 2)
        /\ mutex = ""
====
